---- MODULE Spec2Model ----
(***************************************************************************)
(* Model of carsim.py: the Simulator class that supervises one external    *)
(* ./carsim worker process, the restart_on_broken_pipe wrapper around its  *)
(* three public operations, and the line protocol spoken over the worker's *)
(* stdin/stdout pipes.                                                     *)
(*                                                                         *)
(* The controlling program is one sequential process whose position is pc. *)
(* The worker processes are the environment: a running worker may exit at  *)
(* any moment and answers a request with any reply of a bounded set.       *)
(***************************************************************************)
EXTENDS Integers, Sequences, FiniteSets, TLC

VARIABLES
  pc,      \* position of the controlling program
  worker,  \* self._worker: 0 is None, otherwise an index into procs
  port,    \* self.port: 0 while the attribute is not set
  procs,   \* every worker process ever spawned, in spawn order
  popen,   \* the Popen object self._worker refers to: its pipes and arguments
  hook,    \* TRUE once atexit.register(self._shutdown) has run
  ctx,     \* who entered _restart/_shutdown: "ctor", "wrapper" or "atexit"
  timer,   \* time already waited inside communicate(timeout=10)
  call,    \* the public operation in progress (or the last one finished)
  ncalls,  \* number of public operations started so far
  tracked  \* TRUE once a new_track() has returned to its caller

vars == <<pc, worker, port, procs, popen, hook, ctx, timer, call, ncalls, tracked>>

---------------------------------------------------------------------------
(* Bounds of the model *)

MaxSpawn == 3
MaxCalls == 2
MaxCars == 2

(* Program constants *)

GRACE == 10
PORT_MIN == 1025
PORT_MAX == 65535
CAR_LIMIT == 100
SHAPE_LEN == 5
WHEEL_LEN == 2
STATE_WIDTH == 3
SCORE_WIDTH == 2
ERR_LEN == 4

\* random.randint(1025, 0xffff): both ends of the range
Ports == {PORT_MIN, PORT_MAX}

---------------------------------------------------------------------------
(* Text: a line is a sequence of one-character strings *)

Digits == {"0", "1", "2", "3", "4", "5", "6", "7", "8", "9"}

DigitVal(c) ==
  CASE c = "0" -> 0 [] c = "1" -> 1 [] c = "2" -> 2 [] c = "3" -> 3
    [] c = "4" -> 4 [] c = "5" -> 5 [] c = "6" -> 6 [] c = "7" -> 7
    [] c = "8" -> 8 [] c = "9" -> 9

ERR_PREFIX == <<"E", "R", "R", " ">>
DONE == <<"D", "O", "N", "E">>

RECURSIVE rstrip(_)
rstrip(s) ==
  IF s # <<>> /\ s[Len(s)] = " " THEN rstrip(SubSeq(s, 1, Len(s) - 1)) ELSE s

startswith(s, p) == Len(s) >= Len(p) /\ SubSeq(s, 1, Len(p)) = p

\* line[4:]
slice_from(s, n) == SubSeq(s, n + 1, Len(s))

\* str.split(' '): every single space separates, so "" splits into [""]
RECURSIVE split(_)
split(s) ==
  IF \E i \in 1..Len(s) : s[i] = " "
    THEN LET i == CHOOSE i \in 1..Len(s) :
                    s[i] = " " /\ \A j \in 1..(i - 1) : s[j] # " "
         IN <<SubSeq(s, 1, i - 1)>> \o split(SubSeq(s, i + 1, Len(s)))
    ELSE <<s>>

\* the texts int() and np.double() accept, among the texts of this model
is_number(t) == t # <<>> /\ \A i \in 1..Len(t) : t[i] \in Digits

RECURSIVE number(_)
number(t) ==
  IF t = <<>> THEN 0 ELSE 10 * number(SubSeq(t, 1, Len(t) - 1)) + DigitVal(t[Len(t)])

\* out[i] = [np.double(t) for t in tokens], out[i] of shape (width,):
\* a list of width numbers fills the row, a list of one number is broadcast
row_ok(tokens, width) ==
  /\ \A i \in 1..Len(tokens) : is_number(tokens[i])
  /\ Len(tokens) \in {1, width}

row_of(tokens, width) ==
  [i \in 1..width |-> IF Len(tokens) = 1 THEN number(tokens[1]) ELSE number(tokens[i])]

---------------------------------------------------------------------------
(* Arguments of the public operations *)

Num == [t |-> "num", items |-> <<>>]
Other == [t |-> "other", items |-> <<>>]
List(n) == [t |-> "list", items |-> [i \in 1..n |-> "num"]]

Car(fw, up) ==
  [frame_width |-> fw, upper_shape |-> up, lower_shape |-> List(SHAPE_LEN),
   left_wheel |-> List(WHEEL_LEN), right_wheel |-> List(WHEEL_LEN)]

GoodCar == Car(Num, List(SHAPE_LEN))
BadWidthCar == Car(Other, List(SHAPE_LEN))
ShortShapeCar == Car(Num, List(SHAPE_LEN - 1))

SimulateInputs == {GoodCar, BadWidthCar, ShortShapeCar}

\* races of 0..MaxCars cars, of exactly the limit and of one car more
RaceSizes == (0..MaxCars) \cup {CAR_LIMIT, CAR_LIMIT + 1}

RaceInputs ==
  {[t |-> "list", items |-> [i \in 1..n |-> GoodCar]] : n \in RaceSizes}
    \cup {[t |-> "list", items |-> <<BadWidthCar>>], Other}

check_num(value) == value.t = "num"

check_nums(length, value) ==
  /\ value.t = "list"
  /\ Len(value.items) = length
  /\ \A i \in 1..Len(value.items) : value.items[i] = "num"

check_car(car) ==
  /\ check_num(car.frame_width)
  /\ check_nums(SHAPE_LEN, car.upper_shape)
  /\ check_nums(SHAPE_LEN, car.lower_shape)
  /\ check_nums(WHEEL_LEN, car.left_wheel)
  /\ check_nums(WHEEL_LEN, car.right_wheel)

\* variant: the upper limit is compared with < instead of <=
check_cars_below_limit(cars) ==
  /\ cars.t = "list"
  /\ Len(cars.items) > 0
  /\ Len(cars.items) < CAR_LIMIT
  /\ \A i \in 1..Len(cars.items) : check_car(cars.items[i])

check_cars(cars) ==
  /\ cars.t = "list"
  /\ Len(cars.items) > 0
  /\ Len(cars.items) <= CAR_LIMIT
  /\ \A i \in 1..Len(cars.items) : check_car(cars.items[i])

---------------------------------------------------------------------------
(* The worker: what ./carsim may put on its stdout *)

Count(n) == <<CHOOSE c \in Digits : DigitVal(c) = n>>
StateLineA == <<"1", " ", "2", " ", "3">>
StateLineB == <<"4", " ", "5", " ", "6">>
ScoreLineA == <<"1", " ", "2">>
ScoreLineB == <<"3", " ", "4">>
OneToken == <<"7">>
Junk == <<"x">>
ErrLine == ERR_PREFIX \o <<"b", "a", "d">>

GoodScores(n) == [i \in 1..n |-> IF i % 2 = 1 THEN ScoreLineA ELSE ScoreLineB]

SimReplies ==
  { <<Count(0)>>,
    <<Count(2), StateLineA, StateLineB>>,
    <<Count(2), StateLineA>>,
    <<Count(2), StateLineA, ErrLine>>,
    <<Count(2), ScoreLineA, StateLineB>>,
    <<Count(1), OneToken>>,
    <<ErrLine>>,
    <<Junk>> }

\* a race of more than MaxCars cars is answered by a refusal only
RaceReplies(n) ==
  IF n > MaxCars
    THEN {<<ErrLine>>}
    ELSE {GoodScores(n), GoodScores(n - 1), <<ErrLine>>}
           \cup {[GoodScores(n) EXCEPT ![k] = bad] :
                   k \in 1..n, bad \in {ErrLine, OneToken, StateLineA, Junk}}

\* "ERR " followed by an empty message
ErrBare == ERR_PREFIX

TrackReplies == {<<DONE>>, <<ErrLine>>, <<ErrBare>>, <<Junk>>}

Replies(req) ==
  CASE req.cmd = "SIM" -> SimReplies
    [] req.cmd = "RACE" -> RaceReplies(req.n)
    [] req.cmd = "TRACK" -> TrackReplies

Running == {w \in 1..Len(procs) : procs[w].state = "running"}

\* a process started by Popen; deaf: its end of the stdin pipe is closed
NewProc == [state |-> "running", deaf |-> FALSE]

\* Popen(['./carsim', str(self.port)], stdin=PIPE, stdout=PIPE):
\* inbox is what was written to stdin and not yet answered, out is what the
\* worker wrote to stdout and nobody read yet
\* track: the process behind it has generated a track on a TRACK request
NewPopen(p) ==
  [port |-> p, stdin |-> "open", stdout |-> "open", inbox |-> <<>>,
   out |-> <<>>, shutdowns |-> 0, track |-> FALSE]

NoPopen ==
  [port |-> 0, stdin |-> "closed", stdout |-> "closed", inbox |-> <<>>,
   out |-> <<>>, shutdowns |-> 0, track |-> FALSE]

---------------------------------------------------------------------------
(* The state after the module is loaded and before Simulator() runs *)

NoCall ==
  [op |-> "none", args |-> Other, attempt |-> 0, restarts |-> 0, refchg |-> 0,
   inflight |-> "none", exc1 |-> "none", exc2 |-> "none", exc |-> "none",
   outcome |-> "none", spawned |-> FALSE, reply |-> <<>>, eof |-> FALSE,
   remaining |-> 0, rows |-> <<>>, msg |-> <<>>, stale |-> FALSE,
   errline |-> <<>>, entry |-> [worker |-> 0, port |-> 0], writes |-> 0,
   lines |-> <<>>, io |-> {}, ret |-> <<>>]

Init ==
  /\ pc = "start"
  /\ worker = 0
  /\ port = 0
  /\ procs = <<>>
  /\ popen = NoPopen
  /\ hook = FALSE
  /\ ctx = "ctor"
  /\ timer = 0
  /\ call = NoCall
  /\ ncalls = 0
  /\ tracked = FALSE

---------------------------------------------------------------------------
(* Exceptions *)

\* variant: the wrapper retries in a loop, whatever the attempt
RetryAlways(exc, attempt) == exc = "BrokenPipeError"

\* variant: the wrapper catches every exception of the first attempt
RetryAny(exc, attempt) == attempt = 1

\* restart_on_broken_pipe: except BrokenPipeError around the first attempt only
Retryable(exc, attempt) == exc = "BrokenPipeError" /\ attempt = 1

\* an exception leaving _restart or _shutdown: nothing on the way catches it
Propagate(exc) ==
  CASE ctx = "ctor" -> /\ pc' = "import_failed"
                       /\ call' = call
    [] ctx = "wrapper" -> /\ pc' = "idle"
                          /\ call' = [call EXCEPT !.outcome = "raised", !.exc = exc]
    [] ctx = "atexit" -> /\ pc' = "exited_with_error"
                         /\ call' = call

\* an exception raised in the body of a public operation reaches the wrapper
RaiseIn(c, exc) ==
  /\ pc' = "raised"
  /\ call' = [c EXCEPT !.inflight = exc]

Raise(exc) == RaiseIn(call, exc)

---------------------------------------------------------------------------
(* Simulator.__init__, _start_worker, _restart, _shutdown *)

\* variant: the exit hook is registered before the first worker is started
start_worker_registers_first ==
  /\ pc = "start"
  /\ worker' = 0
  /\ ctx' = "ctor"
  /\ hook' = TRUE
  /\ pc' = "restart"
  /\ UNCHANGED <<port, procs, popen, timer, call, ncalls, tracked>>

\* _start_worker, lines 30-31: self._worker = None, then self._restart()
start_worker ==
  /\ pc = "start"
  /\ worker' = 0
  /\ ctx' = "ctor"
  /\ pc' = "restart"
  /\ UNCHANGED <<port, procs, popen, hook, timer, call, ncalls, tracked>>

\* variant: the replacement is spawned without shutting the held worker down
restart_without_shutdown ==
  /\ pc = "restart"
  /\ pc' = "popen"
  /\ call' = IF ctx = "wrapper" THEN [call EXCEPT !.restarts = @ + 1] ELSE call
  /\ UNCHANGED <<worker, port, procs, popen, hook, ctx, timer, ncalls, tracked>>

\* _restart, lines 35-36: shut the held worker down first
restart ==
  /\ pc = "restart"
  /\ pc' = IF worker # 0 THEN "shutdown" ELSE "popen"
  /\ call' = IF ctx = "wrapper" THEN [call EXCEPT !.restarts = @ + 1] ELSE call
  /\ UNCHANGED <<worker, port, procs, popen, hook, ctx, timer, ncalls, tracked>>

\* variant: stdin is closed without looking whether it is closed already,
\* and closing it twice raises
shutdown_unguarded ==
  /\ pc = "shutdown"
  /\ IF worker = 0 \/ popen.stdin = "closed"
       THEN /\ Propagate(IF worker = 0 THEN "AssertionError" ELSE "ValueError")
            /\ UNCHANGED <<popen, timer>>
       ELSE /\ popen' = [popen EXCEPT !.stdin = "closed", !.shutdowns = @ + 1]
            /\ timer' = 0
            /\ pc' = "communicate"
            /\ call' = call
  /\ UNCHANGED <<worker, port, procs, hook, ctx, ncalls, tracked>>

\* _shutdown up to the wait inside communicate: the assertion, then (on the
\* first communicate of a Popen only) stdin is flushed and closed
shutdown ==
  /\ pc = "shutdown"
  /\ IF worker = 0
       THEN /\ Propagate("AssertionError")
            /\ UNCHANGED <<popen, timer>>
       ELSE /\ popen' = [popen EXCEPT !.stdin = "closed", !.shutdowns = @ + 1]
            /\ timer' = 0
            /\ pc' = "communicate"
            /\ call' = call
  /\ UNCHANGED <<worker, port, procs, hook, ctx, ncalls, tracked>>

\* time passes while communicate waits for the worker to exit: the model
\* looks at the clock half way and at the end of the timeout
tick ==
  /\ pc = "communicate"
  /\ procs[worker].state = "running"
  /\ timer < GRACE
  /\ timer' = IF timer < GRACE \div 2 THEN GRACE \div 2 ELSE GRACE
  /\ UNCHANGED <<pc, worker, port, procs, popen, hook, ctx, call, ncalls, tracked>>

\* where control goes when _shutdown returns
after_shutdown == IF ctx = "atexit" THEN "exited" ELSE "popen"

\* communicate returns: the worker has exited and its stdout was read to the end
communicate_returns ==
  /\ pc = "communicate"
  /\ procs[worker].state # "running"
  /\ popen' = [popen EXCEPT !.out = <<>>, !.stdout = "closed"]
  /\ timer' = 0
  /\ pc' = after_shutdown
  /\ UNCHANGED <<worker, port, procs, hook, ctx, call, ncalls, tracked>>

\* variant: communicate is called without the timeout's value and gives up
\* as soon as the worker is found running
communicate_timeout_at_once ==
  /\ pc = "communicate"
  /\ procs[worker].state = "running"
  /\ popen' = [popen EXCEPT !.out = <<>>]
  /\ pc' = "kill"
  /\ UNCHANGED <<worker, port, procs, hook, ctx, timer, call, ncalls, tracked>>

\* communicate raises TimeoutExpired: the worker is still there after 10
communicate_timeout ==
  /\ pc = "communicate"
  /\ procs[worker].state = "running"
  /\ timer = GRACE
  /\ popen' = [popen EXCEPT !.out = <<>>]
  /\ pc' = "kill"
  /\ UNCHANGED <<worker, port, procs, hook, ctx, timer, call, ncalls, tracked>>

\* variant: TimeoutExpired is swallowed and nothing is killed
kill_noop ==
  /\ pc = "kill"
  /\ timer' = 0
  /\ pc' = after_shutdown
  /\ UNCHANGED <<worker, port, procs, popen, hook, ctx, call, ncalls, tracked>>

\* self._worker.kill(): a no-op on a process that is already gone
kill ==
  /\ pc = "kill"
  /\ procs' = [procs EXCEPT ![worker] =
                 IF @.state = "running" THEN [state |-> "killed", deaf |-> TRUE] ELSE @]
  /\ timer' = 0
  /\ pc' = after_shutdown
  /\ UNCHANGED <<worker, port, popen, hook, ctx, call, ncalls, tracked>>

\* variant: the wrapper restarts the worker and returns without a new attempt
no_retry == "idle"

\* restart_on_broken_pipe, line 17: after the restart the operation runs again
retry == "check"

\* _restart, lines 38-44: a new port, then Popen or SimulatorError
popen_ok ==
  /\ pc = "popen"
  /\ Len(procs) < MaxSpawn
  /\ \E p \in Ports :
       /\ port' = p
       /\ popen' = NewPopen(p)
  /\ procs' = Append(procs, NewProc)
  /\ worker' = Len(procs) + 1
  /\ IF ctx = "wrapper"
       THEN /\ call' = [call EXCEPT !.refchg = @ + 1, !.spawned = TRUE,
                                    !.attempt = @ + 1, !.io = {}]
            /\ pc' = retry
       ELSE /\ call' = call
            /\ pc' = "register"
  /\ UNCHANGED <<hook, ctx, timer, ncalls, tracked>>

popen_fails ==
  /\ pc = "popen"
  /\ \E p \in Ports : port' = p
  /\ Propagate("SimulatorError")
  /\ UNCHANGED <<worker, procs, popen, hook, ctx, timer, ncalls, tracked>>

\* variant: _start_worker forgets atexit.register
atexit_not_registered ==
  /\ pc = "register"
  /\ pc' = "idle"
  /\ UNCHANGED <<worker, port, procs, popen, hook, ctx, timer, call, ncalls, tracked>>

\* _start_worker, line 32
atexit_register ==
  /\ pc = "register"
  /\ hook' = TRUE
  /\ pc' = "idle"
  /\ UNCHANGED <<worker, port, procs, popen, ctx, timer, call, ncalls, tracked>>

\* the interpreter exits and runs the registered hook, self._shutdown;
\* the record of the last public operation is of no use any more
exit ==
  /\ pc \in {"idle", "import_failed"}
  /\ IF hook
       THEN /\ ctx' = "atexit"
            /\ pc' = "shutdown"
       ELSE /\ ctx' = ctx
            /\ pc' = "exited"
  /\ call' = NoCall
  /\ UNCHANGED <<worker, port, procs, popen, hook, timer, ncalls, tracked>>

---------------------------------------------------------------------------
(* The public operations, each wrapped by restart_on_broken_pipe *)

NewCall(op, args) ==
  [NoCall EXCEPT !.op = op, !.args = args, !.attempt = 1,
                 !.entry = [worker |-> worker, port |-> port]]

CanCall == pc = "idle" /\ ncalls < MaxCalls

Enter(op, args) ==
  /\ CanCall
  /\ call' = NewCall(op, args)
  /\ ncalls' = ncalls + 1
  /\ ctx' = "wrapper"
  /\ pc' = "check"
  /\ UNCHANGED <<worker, port, procs, popen, hook, timer, tracked>>

simulate == \E car \in SimulateInputs : Enter("simulate", car)

race == \E cars \in RaceInputs : Enter("race", cars)

new_track == Enter("new_track", Other)

\* the assertions that open simulate (63-67) and race (124); new_track has none
Valid(op, args) ==
  CASE op = "simulate" -> check_car(args)
    [] op = "race" -> check_cars(args)
    [] op = "new_track" -> TRUE

check ==
  /\ pc = "check"
  /\ IF Valid(call.op, call.args)
       THEN /\ pc' = "send"
            /\ call' = call
       ELSE Raise("AssertionError")
  /\ UNCHANGED <<worker, port, procs, popen, hook, ctx, timer, ncalls, tracked>>

\* what _send, _send_race and new_track write before they flush
Request(op, args) ==
  CASE op = "simulate" -> [cmd |-> "SIM", n |-> 1, cars |-> <<args>>]
    [] op = "race" -> [cmd |-> "RACE", n |-> Len(args.items), cars |-> args.items]
    [] op = "new_track" -> [cmd |-> "TRACK", n |-> 0, cars |-> <<>>]

\* variant: the stdin handle looked up by the first attempt is kept
fd_of_first_attempt == call.entry.worker

\* fd = self._worker.stdin (91, 145), self._worker.stdin (170): the handle is
\* looked up again by every attempt
fd == worker

\* fd.write(...); fd.flush(): a file closed by communicate raises ValueError
\* (so does the handle of a worker that was shut down and replaced), a pipe
\* nobody reads raises BrokenPipeError
send ==
  /\ pc = "send"
  /\ LET c == [call EXCEPT !.io = @ \cup {fd}]
     IN IF fd # worker \/ popen.stdin = "closed"
          THEN /\ RaiseIn(c, "ValueError")
               /\ popen' = popen
          ELSE IF procs[worker].deaf
            THEN /\ RaiseIn(c, "BrokenPipeError")
                 /\ popen' = popen
            ELSE /\ popen' = [popen EXCEPT !.inbox =
                                Append(@, Request(call.op, call.args))]
                 /\ call' = [c EXCEPT
                               !.stale = (popen.out # <<>> \/ popen.inbox # <<>>),
                               !.reply = <<>>, !.writes = @ + 1]
                 /\ pc' = "recv"
  /\ UNCHANGED <<worker, port, procs, hook, ctx, timer, ncalls, tracked>>

\* readline() returns once a line is there, or "" at end of stream
CanRead == popen.out # <<>> \/ procs[worker].state # "running"
readline == IF popen.out # <<>> THEN Head(popen.out) ELSE <<>>
Consumed == IF popen.out # <<>> THEN Tail(popen.out) ELSE <<>>

\* bookkeeping of what a read saw: end of stream, a line that starts with
\* ERR, the lines taken off the stream and the worker they came from
Seen(c) ==
  [c EXCEPT !.eof = @ \/ (popen.out = <<>>),
            !.errline = IF startswith(readline, ERR_PREFIX) THEN readline ELSE @,
            !.lines = IF popen.out # <<>> THEN Append(@, readline) ELSE @,
            !.io = @ \cup {worker}]

\* variant: the module-level simulate hands the trace on
public_result_returned(op, value) == IF op = "new_track" THEN <<>> ELSE <<value>>

\* what the module-level function hands to its caller, <<>> standing for
\* None: race (210) returns the scores, simulate (201) has no return
\* statement, new_track (217) returns what Simulator.new_track returns
public_result(op, value) == IF op = "race" THEN <<value>> ELSE <<>>

Return(c) ==
  /\ pc' = "idle"
  /\ call' = [c EXCEPT !.outcome = "ok", !.ret = public_result(c.op, c.rows)]

\* the first reply line, read by _recv (104-109), and what each operation
\* does with it: int() in simulate (73), row 0 in _recv_scores (155-158),
\* the comparison with DONE in new_track (173)
recv ==
  /\ pc = "recv"
  /\ CanRead
  /\ LET line == rstrip(readline)
         c == Seen(call)
         tokens == split(line)
     IN /\ popen' = [popen EXCEPT !.out = Consumed]
        /\ IF startswith(line, ERR_PREFIX)
             THEN /\ pc' = "raised"
                  /\ call' = [c EXCEPT !.inflight = "SimulationError",
                                       !.msg = slice_from(line, ERR_LEN)]
             ELSE CASE call.op = "simulate" ->
                         IF is_number(line)
                           THEN IF number(line) = 0
                                  THEN Return(c)
                                  ELSE /\ pc' = "rows"
                                       /\ call' = [c EXCEPT !.remaining = number(line)]
                           ELSE /\ pc' = "raised"
                                /\ call' = [c EXCEPT !.inflight = "ValueError"]
                    [] call.op = "race" ->
                         IF row_ok(tokens, SCORE_WIDTH)
                           THEN LET d == [c EXCEPT
                                            !.rows = <<row_of(tokens, SCORE_WIDTH)>>,
                                            !.remaining = Len(call.args.items) - 1]
                                IN IF d.remaining = 0
                                     THEN Return(d)
                                     ELSE /\ pc' = "rows"
                                          /\ call' = d
                           ELSE /\ pc' = "raised"
                                /\ call' = [c EXCEPT !.inflight = "ValueError"]
                    [] call.op = "new_track" ->
                         IF line = DONE
                           THEN Return(c)
                           ELSE /\ pc' = "raised"
                                /\ call' = [c EXCEPT !.inflight = "SimulatorError"]
        /\ tracked' = (tracked \/ (call.op = "new_track" /\ line = DONE))
  /\ UNCHANGED <<worker, port, procs, hook, ctx, timer, ncalls>>

RowWidth(op) == IF op = "simulate" THEN STATE_WIDTH ELSE SCORE_WIDTH

\* one turn of the loop of _recv_states (114-116) or _recv_scores (161-162):
\* the line is read from stdout directly, not through _recv
recv_row ==
  /\ pc = "rows"
  /\ CanRead
  /\ LET tokens == split(rstrip(readline))
         c == Seen(call)
     IN /\ popen' = [popen EXCEPT !.out = Consumed]
        /\ IF row_ok(tokens, RowWidth(call.op))
             THEN LET d == [c EXCEPT
                              !.rows = Append(@, row_of(tokens, RowWidth(call.op))),
                              !.remaining = @ - 1]
                  IN IF d.remaining = 0
                       THEN Return(d)
                       ELSE /\ pc' = "rows"
                            /\ call' = d
             ELSE /\ pc' = "raised"
                  /\ call' = [c EXCEPT !.inflight = "ValueError"]
  /\ UNCHANGED <<worker, port, procs, hook, ctx, timer, ncalls, tracked>>

\* restart_on_broken_pipe, lines 13-17: an exception leaves the attempt
wrapper_except ==
  /\ pc = "raised"
  /\ LET c == IF call.attempt = 1
                THEN [call EXCEPT !.exc1 = call.inflight, !.inflight = "none"]
                ELSE [call EXCEPT !.exc2 = call.inflight, !.inflight = "none"]
     IN IF Retryable(call.inflight, call.attempt)
          THEN /\ call' = c
               /\ pc' = "restart"
          ELSE /\ call' = [c EXCEPT !.outcome = "raised", !.exc = call.inflight]
               /\ pc' = "idle"
  /\ UNCHANGED <<worker, port, procs, popen, hook, ctx, timer, ncalls, tracked>>

---------------------------------------------------------------------------
(* The environment: the worker processes *)

\* the running worker answers the oldest request it has read
WorkerReply ==
  /\ worker \in Running
  /\ popen.inbox # <<>>
  /\ \E r \in Replies(Head(popen.inbox)) :
       /\ popen' = [popen EXCEPT !.inbox = Tail(@), !.out = @ \o r,
                                 !.track = @ \/ (r = <<DONE>>)]
       /\ call' = IF pc \in {"recv", "rows"}
                    THEN [call EXCEPT !.reply = <<r>>]
                    ELSE call
  /\ UNCHANGED <<pc, worker, port, procs, hook, ctx, timer, ncalls, tracked>>

\* a running worker closes its end of the stdin pipe and keeps running
WorkerCloseStdin ==
  \E w \in Running :
    /\ ~procs[w].deaf
    /\ procs' = [procs EXCEPT ![w].deaf = TRUE]
    /\ UNCHANGED <<pc, worker, port, popen, hook, ctx, timer, call, ncalls, tracked>>

\* a running worker exits: by itself, by a crash, or because its stdin closed
WorkerExit ==
  \E w \in Running :
    /\ procs' = [procs EXCEPT ![w] = [state |-> "exited", deaf |-> TRUE]]
    /\ UNCHANGED <<pc, worker, port, popen, hook, ctx, timer, call, ncalls, tracked>>

---------------------------------------------------------------------------

Next ==
  \/ start_worker
  \/ restart
  \/ shutdown
  \/ tick
  \/ communicate_returns
  \/ communicate_timeout
  \/ kill
  \/ popen_ok
  \/ popen_fails
  \/ atexit_register
  \/ exit
  \/ simulate
  \/ race
  \/ new_track
  \/ check
  \/ send
  \/ recv
  \/ recv_row
  \/ wrapper_except
  \/ WorkerReply
  \/ WorkerCloseStdin
  \/ WorkerExit

Spec == Init /\ [][Next]_vars

---------------------------------------------------------------------------
(* Properties *)

\* a line of exactly k numbers separated by single spaces
numbers(line, k) ==
  /\ Len(split(line)) = k
  /\ \A i \in 1..k : is_number(split(line)[i])

\* a reply that follows the protocol table for the request
WellFormed(op, args, r) ==
  CASE op = "simulate" ->
         /\ r # <<>>
         /\ is_number(r[1])
         /\ Len(r) = 1 + number(r[1])
         /\ \A i \in 2..Len(r) : numbers(r[i], STATE_WIDTH)
    [] op = "race" ->
         /\ Len(r) = Len(args.items)
         /\ \A i \in 1..Len(r) : numbers(r[i], SCORE_WIDTH)
    [] op = "new_track" -> r = <<DONE>>
    [] OTHER -> FALSE

InRestart == pc \in {"restart", "shutdown", "communicate", "kill", "popen"}

\* C1: when the first attempt of a public operation fails with a broken
\* pipe, the replacement worker is spawned, the second attempt meets no
\* broken pipe and no end of stream, and whatever the replacement replied
\* follows the protocol, then the operation returns normally, the
\* replacement has answered it, there was exactly one restart and
\* self._worker changed exactly once during the call.
RestartOnce ==
  (/\ pc = "idle"
   /\ call.exc1 = "BrokenPipeError"
   /\ call.spawned
   /\ call.exc2 # "BrokenPipeError"
   /\ ~call.eof
   /\ (call.reply # <<>> => WellFormed(call.op, call.args, call.reply[1])))
  => /\ call.outcome = "ok"
     /\ call.reply # <<>>
     /\ call.restarts = 1
     /\ call.refchg = 1

RestartOnceWitness ==
  /\ pc = "idle"
  /\ call.op = "simulate"
  /\ call.exc1 = "BrokenPipeError"
  /\ call.outcome = "ok"
  /\ call.refchg = 1
  /\ Len(call.rows) = 2
  /\ worker = 2

\* C2: when the second attempt of a public operation fails with a broken
\* pipe too, the operation ends by raising BrokenPipeError to its caller,
\* after exactly one restart and exactly two attempts.
RestartExhaustion ==
  call.exc2 = "BrokenPipeError"
    => /\ call.outcome = "raised"
       /\ call.exc = "BrokenPipeError"
       /\ call.restarts = 1
       /\ call.attempt = 2
       /\ call.refchg = 1
       /\ ~InRestart

RestartExhaustionWitness ==
  /\ pc = "idle"
  /\ call.exc1 = "BrokenPipeError"
  /\ call.exc2 = "BrokenPipeError"
  /\ call.exc = "BrokenPipeError"
  /\ call.restarts = 1

\* C3: an attempt that fails with anything but BrokenPipeError (an assertion
\* of the validation, SimulationError, ValueError or SimulatorError for a
\* reply that cannot be decoded) ends the call with that exception, with no
\* restart after it and no further attempt; a restart whose Popen fails ends
\* the call with SimulatorError and no second attempt.
OnlyBrokenPipeRetries ==
  /\ call.exc1 \notin {"none", "BrokenPipeError"}
       => /\ call.outcome = "raised"
          /\ call.exc = call.exc1
          /\ call.restarts = 0
          /\ call.attempt = 1
          /\ ~InRestart
  /\ call.exc2 \notin {"none", "BrokenPipeError"}
       => /\ call.outcome = "raised"
          /\ call.exc = call.exc2
          /\ call.restarts = 1
          /\ call.attempt = 2
          /\ ~InRestart
  /\ (call.exc1 = "BrokenPipeError" /\ ~call.spawned /\ ~InRestart)
       => /\ call.outcome = "raised"
          /\ call.exc = "SimulatorError"
          /\ call.restarts = 1
          /\ call.attempt = 1
          /\ pc = "idle"

OnlyBrokenPipeRetriesWitness ==
  /\ pc = "idle"
  /\ call.exc1 = "BrokenPipeError"
  /\ ~call.spawned
  /\ call.exc = "SimulatorError"
  /\ call.restarts = 1
  /\ call.attempt = 1

\* C4: at most one worker process spawned by the Simulator is running, in
\* every state, the states inside _restart and _shutdown included.
AtMostOneLive == Cardinality(Running) <= 1

AtMostOneLiveWitness ==
  /\ pc = "kill"
  /\ ctx = "wrapper"
  /\ Running = {worker}
  /\ Len(procs) = 2

\* C5: no worker other than the one self._worker refers to is ever running,
\* and each time _restart spawns a worker, that worker is the one
\* self._worker refers to and the only one running.
SingleWorkerAfterRestart ==
  /\ [](\A w \in 1..Len(procs) : w # worker => procs[w].state # "running")
  /\ [][Len(procs') > Len(procs)
          => (worker' = Len(procs') /\ Running' = {worker'})]_vars

SingleWorkerAfterRestartWitness ==
  /\ Len(procs) = 3
  /\ worker = 3
  /\ Running = {3}
  /\ procs[1].state = "killed"
  /\ procs[2].state = "exited"
  /\ pc = "check"

\* C6: every reply line read during a public operation that begins with
\* "ERR " makes the operation raise SimulationError with the text after the
\* prefix as its message.
ErrLineRaisesSimulationError ==
  call.errline # <<>>
    => /\ "SimulationError" \in {call.inflight, call.exc1, call.exc2}
       /\ call.msg = slice_from(call.errline, ERR_LEN)

\* C7: no request is written to a worker while lines of an earlier reply are
\* unread on its stdout, or an earlier request is still unanswered.
NoStaleReply == ~call.stale

\* C8: _shutdown closes the worker's stdin and waits; it kills only when the
\* whole grace period has passed with the worker still running; a worker
\* that has exited is never turned into a killed one; and _shutdown returns
\* to its caller, without an exception, with the worker not running.
ShutdownGrace ==
  /\ [](pc \in {"communicate", "kill"} => popen.stdin = "closed")
  /\ [](pc = "kill" => timer = GRACE)
  /\ [][\A w \in 1..Len(procs) :
          /\ procs[w].state = "exited" => procs'[w].state = "exited"
          /\ (procs[w].state = "running" /\ procs'[w].state = "killed")
               => (pc = "kill" /\ w = worker)]_vars
  /\ [][(pc \in {"communicate", "kill"} /\ pc' \notin {"communicate", "kill"})
          => /\ pc' = after_shutdown
             /\ procs'[worker].state # "running"
             /\ (pc = "kill" /\ procs[worker].state = "running")
                  => procs'[worker].state = "killed"]_vars

ShutdownGraceWitness ==
  /\ pc = "exited"
  /\ Len(procs) = 2
  /\ worker = 2
  /\ popen.shutdowns = 1
  /\ procs[1].state = "exited"
  /\ procs[2].state = "killed"

NoOrphan == pc \in {"exited", "exited_with_error"} => Running = {}

NoOrphanWitness ==
  /\ pc = "exited"
  /\ hook
  /\ Len(procs) = 3
  /\ worker = 3
  /\ procs[worker].state = "killed"

---------------------------------------------------------------------------
\* C11: a race of 0 cars or of CAR_LIMIT + 1 cars is refused with an
\* AssertionError before anything is written to or read from the worker,
\* without a restart and with self._worker and self.port as they were when
\* the call was entered; a race of exactly CAR_LIMIT valid cars is never
\* refused by an assertion and its request is written.
RaceOf(n) ==
  /\ call.op = "race"
  /\ call.args.t = "list"
  /\ Len(call.args.items) = n

ValidationBoundary ==
  /\ (RaceOf(0) \/ RaceOf(CAR_LIMIT + 1)) =>
       /\ call.writes = 0
       /\ call.lines = <<>>
       /\ ~call.eof
       /\ call.io = {}
       /\ call.restarts = 0
       /\ worker = call.entry.worker
       /\ port = call.entry.port
       /\ pc = "idle" => call.outcome = "raised" /\ call.exc = "AssertionError"
  /\ (RaceOf(CAR_LIMIT) /\ \A i \in 1..CAR_LIMIT : check_car(call.args.items[i])) =>
       /\ "AssertionError" \notin {call.inflight, call.exc1, call.exc2}
       /\ pc \notin {"check", "send"} => call.io # {}
       /\ (pc \in {"recv", "rows"} /\ call.attempt = 1) => call.writes = 1

ValidationBoundaryWitness ==
  /\ RaceOf(CAR_LIMIT + 1)
  /\ pc = "idle"
  /\ call.exc = "AssertionError"
  /\ worker \in Running

---------------------------------------------------------------------------
\* the numbers of a line of exactly k numbers
row_read(line, k) == [i \in 1..k |-> number(split(rstrip(line))[i])]

\* C12: in a race of N cars (1 <= N <= CAR_LIMIT) the request written
\* carries the N cars in the order of the argument, a race that returns has
\* consumed exactly N reply lines, and row i of what it returns is the
\* (distance, time) pair of the i-th of these lines.
RaceOrdering ==
  /\ (call.op = "race" /\ pc = "recv" /\ call.writes = 1 /\ popen.inbox # <<>>) =>
       LET req == popen.inbox[Len(popen.inbox)]
       IN /\ req.n = Len(call.args.items)
          /\ req.cars = call.args.items
  /\ (call.op = "race" /\ call.outcome = "ok") =>
       LET n == Len(call.args.items)
       IN /\ n \in 1..CAR_LIMIT
          /\ Len(call.lines) = n
          /\ Len(call.rows) = n
          /\ \A i \in 1..n :
               /\ numbers(rstrip(call.lines[i]), SCORE_WIDTH)
               /\ call.rows[i] = row_read(call.lines[i], SCORE_WIDTH)

---------------------------------------------------------------------------
\* C13: when the module-level simulate returns, what it hands to its caller
\* is the sequence of (x, y, angle) rows built from the worker's reply.
PublicSimulateReturnsTrace ==
  (call.op = "simulate" /\ call.outcome = "ok") => call.ret = <<call.rows>>

---------------------------------------------------------------------------
\* C14: once a new_track() has returned, every simulate or race whose
\* request was written is served by a worker that generated a track on
\* request, also when the worker was replaced in between.
TrackPersists ==
  (tracked /\ call.op \in {"simulate", "race"} /\ call.writes > 0) => popen.track

---------------------------------------------------------------------------
\* the reads of a call: the lines taken off the stream, and the read that
\* found the end of the stream
Reads == Len(call.lines) + (IF call.eof THEN 1 ELSE 0)

\* C15: a new_track() that has read the worker's reply has read exactly one
\* line; it returns if and only if that line is DONE; if the line starts
\* with "ERR " it raises SimulationError with the rest of the line as the
\* message; on any other line, and at the end of the stream, it raises.
NewTrackOutcome ==
  (call.op = "new_track" /\ call.outcome # "none" /\ Reads > 0) =>
    /\ Reads = 1
    /\ call.outcome = "ok" <=> call.lines = <<DONE>>
    /\ call.outcome # "ok" => call.outcome = "raised"
    /\ (call.lines # <<>> /\ startswith(call.lines[1], ERR_PREFIX)) =>
         /\ call.exc = "SimulationError"
         /\ call.msg = slice_from(call.lines[1], ERR_LEN)

---------------------------------------------------------------------------
\* C16: self.port lies in PORT_MIN..PORT_MAX, and whenever a public
\* operation has returned or raised (a restart that failed to launch the
\* replacement included) it is the port the held worker was launched with.
PortMatchesWorker ==
  /\ port # 0 => port \in PORT_MIN..PORT_MAX
  /\ (pc = "idle" /\ worker # 0) => port = popen.port

---------------------------------------------------------------------------
\* the line row i of the result was made from: simulate reads the count first
RowLine(i) == call.lines[IF call.op = "simulate" THEN i + 1 ELSE i]

\* C17: a state line that does not hold STATE_WIDTH tokens and a score line
\* that does not hold SCORE_WIDTH tokens (a line of one number included) is
\* never turned into a row of the result, and the call that read it fails.
MalformedLineFails ==
  call.op \in {"simulate", "race"} =>
    /\ \A i \in 1..Len(call.rows) :
         Len(split(rstrip(RowLine(i)))) = RowWidth(call.op)
    /\ call.outcome = "ok" =>
         \A i \in 1..Len(call.lines) :
           (call.op = "race" \/ i > 1) =>
             Len(split(rstrip(call.lines[i]))) = RowWidth(call.op)

---------------------------------------------------------------------------
\* C18: the attempt that follows a restart runs the whole operation on the
\* replacement: it starts again at the argument checks, every write and
\* read of it goes to the worker self._worker now refers to, which is not
\* the worker of the first attempt, and it writes the complete request to
\* a worker that has received and sent nothing so far.
RetryOnNewWorker ==
  /\ [](call.attempt = 2 =>
          /\ worker # call.entry.worker
          /\ worker = Len(procs)
          /\ call.io \subseteq {worker}
          /\ ~call.stale)
  /\ [][/\ (call.attempt = 1 /\ call'.attempt = 2) =>
             /\ pc' = "check"
             /\ call'.io = {}
             /\ popen'.inbox = <<>> /\ popen'.out = <<>>
        /\ (call.attempt = 2 /\ pc = "send" /\ pc' = "recv") =>
             /\ Valid(call.op, call.args)
             /\ popen.inbox = <<>> /\ popen.out = <<>>
             /\ popen'.inbox = <<Request(call.op, call.args)>>]_vars

RetryOnNewWorkerWitness ==
  /\ call.attempt = 2
  /\ call.outcome = "ok"
  /\ call.op = "race"
  /\ call.io = {worker}
  /\ call.writes = 1
  /\ Len(call.rows) = MaxCars

---------------------------------------------------------------------------
\* C19: a simulate that returns after reading the count N as its first line
\* has consumed exactly N more lines, its trace has exactly N rows, and row
\* i of the trace is the (x, y, angle) triple of the i-th of these lines.
SimulateFraming ==
  (call.op = "simulate" /\ call.outcome = "ok") =>
    /\ call.lines # <<>>
    /\ is_number(rstrip(call.lines[1]))
    /\ LET N == number(rstrip(call.lines[1]))
       IN /\ Len(call.lines) = 1 + N
          /\ ~call.eof
          /\ Len(call.rows) = N
          /\ \A i \in 1..N :
               /\ numbers(rstrip(call.lines[i + 1]), STATE_WIDTH)
               /\ call.rows[i] = row_read(call.lines[i + 1], STATE_WIDTH)

---------------------------------------------------------------------------
\* C20: whenever _shutdown is entered, from _restart or from the exit hook,
\* self._worker refers to a worker, so its assertion holds and no
\* AssertionError leaves it; this includes the exit after a restart whose
\* Popen failed, and the exit after a constructor whose Popen failed.
ShutdownAssertionHolds ==
  /\ pc = "shutdown" => worker \in 1..Len(procs)
  /\ pc # "exited_with_error"
  /\ (pc = "exited" /\ worker = 0) => ~hook

ShutdownAssertionHoldsWitness ==
  /\ pc = "shutdown"
  /\ ctx = "atexit"
  /\ worker # 0
  /\ popen.shutdowns = 1
  /\ port # popen.port

====
